---- MODULE Spec2Model ----
(***************************************************************************)
(* Court administration handlers of src/api/admin/court.rs: add, del, all  *)
(* and update, over the courts table and the (externally written) orders   *)
(* table.                                                                  *)
(*                                                                         *)
(* Two specifications share the same state and the same query operators:   *)
(*   Spec      requests are served one at a time (a handler runs from its  *)
(*             first query to its response without another request in      *)
(*             between);                                                   *)
(*   SpecConc  every handler is split at its await points: the pre-check   *)
(*             query is one step and the write is a later step, and the    *)
(*             steps of different requests interleave.                     *)
(*                                                                         *)
(* The store answers every query: the map_err branches (a connection or    *)
(* driver failure, answered with ServerInnerErr) are not behaviours of the *)
(* model.                                                                  *)
(***************************************************************************)
EXTENDS Integers, Sequences, FiniteSets

\* ------------------------------------------------------------- bounds

\* Rows the store may ever insert: an add that would pass the cap is not
\* started (its duplicate-name answer is not capped).
MaxCourtId == 2
\* The clock runs over 0..MaxTime.
MaxTime == 1
\* Order rows the booking component may create.
MaxOrders == 1

\* ------------------------------------------------------------- inputs

\* auth.user.user_id of the authenticated admins.
Admins == {"A", "B"}

\* Request tasks that may be in flight at once (SpecConc).
Tasks == {"t1", "t2"}

\* AddCourt request bodies: {court_name, location, label, price_per_hour}.
AddCourt ==
    { [court_name |-> r[1], location |-> r[2], label |-> r[3], price_per_hour |-> r[4]] :
        r \in {<<"north", "east", "indoor", 100>>, <<"south", "west", "outdoor", 150>>} }

CourtIds == 1..MaxCourtId

\* DelCourt request bodies: {court_id}.
DelCourt == { [court_id |-> c] : c \in CourtIds }

\* UpdateCourt request bodies: {court_id, court_name, location, label, price_per_hour}.
UpdateCourt ==
    { [court_id |-> c, court_name |-> s.court_name, location |-> s.location,
       label |-> s.label, price_per_hour |-> s.price_per_hour] :
        c \in CourtIds, s \in AddCourt }

\* Option<i32>::None of SaveCourt.court_id.
None == 0

\* -------------------------------------------------------------- state

VARIABLES
    courts,   \* the courts table: a sequence of rows in insertion order
    nextId,   \* the store's auto-increment counter for courts.court_id
    orders,   \* the orders table: a set of [court_id, apt_end]
    now,      \* the clock read by chrono::Utc::now()
    tasks,    \* SpecConc: each request task's position and request
    resp      \* the response of the request that completed last

vars == <<courts, nextId, orders, now, tasks, resp>>

\* The primary key of the courts entity.
PrimaryKey == {"court_id"}

\* ------------------------------------------------------ store queries

\* Option of a query's first row, as a sequence of length 0 or 1 (.one()).
One(rows) == IF rows = <<>> THEN <<>> ELSE <<Head(rows)>>

\* add's pre-check: a court of this admin with this name.
AddFilter_AnyAdmin(row, user_id, schema) == row.court_name = schema.court_name
AddFilter(row, user_id, schema) ==
    row.court_name = schema.court_name /\ row.admin_id = user_id

AddPrecheck(rows, user_id, schema) ==
    One(SelectSeq(rows, LAMBDA row : AddFilter(row, user_id, schema)))

\* add's SaveCourt.
AddSaveCourt(user_id, schema) ==
    [court_id |-> None, admin_id |-> user_id,
     court_name |-> schema.court_name, location |-> schema.location,
     label |-> schema.label, price_per_hour |-> schema.price_per_hour]

\* del's pre-check: an order of this court that ends at or after `t`.
DelFilter_Strict(o, court_id, t) == o.court_id = court_id /\ o.apt_end > t
DelFilter(o, court_id, t) == o.court_id = court_id /\ o.apt_end >= t

DelPrecheck(ords, court_id, t) == { o \in ords : DelFilter(o, court_id, t) }

\* del's ActiveModel: the columns that are Set.
DelActiveModel(user_id, schema) ==
    [admin_id |-> user_id, court_id |-> schema.court_id]

\* Courts::delete(active_model): DELETE ... WHERE <primary key columns> =
\* <their values in the model>; the model's other columns are not read.
DeleteMatches(row, am) ==
    /\ ("court_id" \in PrimaryKey => row.court_id = am.court_id)
    /\ ("admin_id" \in PrimaryKey => row.admin_id = am.admin_id)

DeleteExec(rows, am) ==
    LET kept == SelectSeq(rows, LAMBDA row : ~DeleteMatches(row, am))
    IN  [rows |-> kept, rows_affected |-> Len(rows) - Len(kept)]

\* all's query and its mapping to CourtSchema.
AllFilter_Everyone(row, user_id) == TRUE
AllFilter(row, user_id) == row.admin_id = user_id

CourtSchema_NoId(e, user_id) ==
    [court_id |-> None, admin_id |-> user_id, court_name |-> e.court_name,
     location |-> e.location, label |-> e.label, price_per_hour |-> e.price_per_hour]
CourtSchema(e, user_id) ==
    [court_id |-> e.court_id, admin_id |-> user_id, court_name |-> e.court_name,
     location |-> e.location, label |-> e.label, price_per_hour |-> e.price_per_hour]

AllCourts(rows, user_id) ==
    LET found == SelectSeq(rows, LAMBDA row : AllFilter(row, user_id))
    IN  [i \in 1..Len(found) |-> CourtSchema(found[i], user_id)]

\* update's pre-check: the court with this id under this admin.
UpdateFilter_AnyAdmin(row, user_id, schema) == row.court_id = schema.court_id
UpdateFilter(row, user_id, schema) ==
    row.court_id = schema.court_id /\ row.admin_id = user_id

UpdatePrecheck(rows, user_id, schema) ==
    One(SelectSeq(rows, LAMBDA row : UpdateFilter(row, user_id, schema)))

\* update's SaveCourt.
UpdateSaveCourt_SwapFields(user_id, schema) ==
    [court_id |-> schema.court_id, admin_id |-> user_id,
     court_name |-> schema.court_name, location |-> schema.label,
     label |-> schema.location, price_per_hour |-> schema.price_per_hour]
UpdateSaveCourt(user_id, schema) ==
    [court_id |-> schema.court_id, admin_id |-> user_id,
     court_name |-> schema.court_name, location |-> schema.location,
     label |-> schema.label, price_per_hour |-> schema.price_per_hour]

\* CourtOp::save: without a court_id the row is inserted under the next
\* store-assigned id; with one, the row of that id is replaced. The store
\* has no unique index on (admin_id, court_name).
CourtOpSave(rows, next, sc) ==
    IF sc.court_id = None
    THEN LET row == [sc EXCEPT !.court_id = next]
         IN  [ok |-> TRUE, rows |-> Append(rows, row), next |-> next + 1, court |-> <<row>>]
    ELSE IF \E i \in 1..Len(rows) : rows[i].court_id = sc.court_id
         THEN [ok |-> TRUE,
               rows |-> [i \in 1..Len(rows) |->
                           IF rows[i].court_id = sc.court_id THEN sc ELSE rows[i]],
               next |-> next, court |-> <<sc>>]
         ELSE [ok |-> FALSE, rows |-> rows, next |-> next, court |-> <<>>]

\* ---------------------------------------------------------- responses

NoResp ==
    [op |-> "none", admin_id |-> "none", court_id |-> None, code |-> 0,
     msg |-> "none", data |-> <<>>]

\* Ok(Json({"code": 0, "msg": ..., "data": ...})).
OkResp(op, user_id, court_id, msg, data) ==
    [op |-> op, admin_id |-> user_id, court_id |-> court_id, code |-> 0,
     msg |-> msg, data |-> data]

\* Err(BaseError::BadRequest(-1, msg)).
BadRequest(op, user_id, court_id, msg) ==
    [op |-> op, admin_id |-> user_id, court_id |-> court_id, code |-> -1,
     msg |-> msg, data |-> <<>>]

\* The error CourtOp::save returns, passed on by `?`.
SaveErr(op, user_id, court_id) ==
    [op |-> op, admin_id |-> user_id, court_id |-> court_id, code |-> -2,
     msg |-> "save_failed", data |-> <<>>]

Idle == [pc |-> "idle"]

Init ==
    /\ courts = <<>>
    /\ nextId = 1
    /\ orders = {}
    /\ now = 0
    /\ tasks = [t \in Tasks |-> Idle]
    /\ resp = NoResp

\* ------------------------------------------- handlers, one at a time

\* add (lines 33-73).
add(user_id, schema) ==
    /\ IF AddPrecheck(courts, user_id, schema) # <<>>
       THEN /\ resp' = BadRequest("add", user_id, None, "duplicate_name")
            /\ UNCHANGED <<courts, nextId>>
       ELSE LET r == CourtOpSave(courts, nextId, AddSaveCourt(user_id, schema))
            IN  /\ nextId <= MaxCourtId
                /\ courts' = r.rows
                /\ nextId' = r.next
                /\ resp' = IF r.ok
                           THEN OkResp("add", user_id, r.court[1].court_id, "add_ok", r.court)
                           ELSE SaveErr("add", user_id, None)
    /\ UNCHANGED <<orders, now, tasks>>

\* del (lines 75-121).
del(user_id, schema) ==
    /\ IF DelPrecheck(orders, schema.court_id, now) # {}
       THEN /\ resp' = BadRequest("del", user_id, schema.court_id, "pending_orders")
            /\ UNCHANGED courts
       ELSE LET r == DeleteExec(courts, DelActiveModel(user_id, schema))
            IN  /\ courts' = r.rows
                /\ resp' = IF r.rows_affected = 0
                           THEN BadRequest("del", user_id, schema.court_id, "no_court")
                           ELSE OkResp("del", user_id, schema.court_id, "del_ok", <<>>)
    /\ UNCHANGED <<nextId, orders, now, tasks>>

\* all (lines 123-151).
all(user_id) ==
    /\ resp' = OkResp("all", user_id, None, "query_ok", AllCourts(courts, user_id))
    /\ UNCHANGED <<courts, nextId, orders, now, tasks>>

\* update (lines 153-189).
update(user_id, schema) ==
    /\ IF UpdatePrecheck(courts, user_id, schema) = <<>>
       THEN /\ resp' = BadRequest("update", user_id, schema.court_id, "not_exist")
            /\ UNCHANGED <<courts, nextId>>
       ELSE LET r == CourtOpSave(courts, nextId, UpdateSaveCourt(user_id, schema))
            IN  /\ courts' = r.rows
                /\ nextId' = r.next
                /\ resp' = IF r.ok
                           THEN OkResp("update", user_id, schema.court_id, "update_ok", r.court)
                           ELSE SaveErr("update", user_id, schema.court_id)
    /\ UNCHANGED <<orders, now, tasks>>

\* ----------------------------------------------------- the environment

\* The booking component stores an order on an existing court, ending at
\* or after the current time.
Book(court_id, apt_end) ==
    /\ Cardinality(orders) < MaxOrders
    /\ \E i \in 1..Len(courts) : courts[i].court_id = court_id
    /\ apt_end >= now
    /\ orders' = orders \cup {[court_id |-> court_id, apt_end |-> apt_end]}
    /\ UNCHANGED <<courts, nextId, now, tasks, resp>>

\* Time passes.
Tick ==
    /\ now < MaxTime
    /\ now' = now + 1
    /\ UNCHANGED <<courts, nextId, orders, tasks, resp>>

Env ==
    \/ \E c \in CourtIds, e \in 0..MaxTime : Book(c, e)
    \/ Tick

Next ==
    \/ \E a \in Admins, s \in AddCourt : add(a, s)
    \/ \E a \in Admins, s \in DelCourt : del(a, s)
    \/ \E a \in Admins : all(a)
    \/ \E a \in Admins, s \in UpdateCourt : update(a, s)
    \/ Env

Spec == Init /\ [][Next]_vars

\* ------------------------------------ handlers, split at their awaits

InFlight(pc) == Cardinality({t \in Tasks : tasks[t].pc = pc})

\* add up to the answer of its pre-check query (lines 38-53).
add_check(t, user_id, schema) ==
    /\ tasks[t].pc = "idle"
    /\ IF AddPrecheck(courts, user_id, schema) # <<>>
       THEN /\ resp' = BadRequest("add", user_id, None, "duplicate_name")
            /\ UNCHANGED tasks
       ELSE /\ nextId + InFlight("add_save") <= MaxCourtId
            /\ tasks' = [tasks EXCEPT ![t] =
                           [pc |-> "add_save", user_id |-> user_id, schema |-> schema]]
            /\ UNCHANGED resp
    /\ UNCHANGED <<courts, nextId, orders, now>>

\* add from CourtOp::save to its response (lines 54-72).
add_save(t) ==
    /\ tasks[t].pc = "add_save"
    /\ LET user_id == tasks[t].user_id
           r == CourtOpSave(courts, nextId, AddSaveCourt(user_id, tasks[t].schema))
       IN  /\ courts' = r.rows
           /\ nextId' = r.next
           /\ resp' = IF r.ok
                      THEN OkResp("add", user_id, r.court[1].court_id, "add_ok", r.court)
                      ELSE SaveErr("add", user_id, None)
    /\ tasks' = [tasks EXCEPT ![t] = Idle]
    /\ UNCHANGED <<orders, now>>

\* del up to the answer of its order query (lines 80-96).
del_check(t, user_id, schema) ==
    /\ tasks[t].pc = "idle"
    /\ IF DelPrecheck(orders, schema.court_id, now) # {}
       THEN /\ resp' = BadRequest("del", user_id, schema.court_id, "pending_orders")
            /\ UNCHANGED tasks
       ELSE /\ tasks' = [tasks EXCEPT ![t] =
                           [pc |-> "del_exec", user_id |-> user_id, schema |-> schema]]
            /\ UNCHANGED resp
    /\ UNCHANGED <<courts, nextId, orders, now>>

\* del from Courts::delete to its response (lines 98-120).
del_exec(t) ==
    /\ tasks[t].pc = "del_exec"
    /\ LET user_id == tasks[t].user_id
           schema == tasks[t].schema
           r == DeleteExec(courts, DelActiveModel(user_id, schema))
       IN  /\ courts' = r.rows
           /\ resp' = IF r.rows_affected = 0
                      THEN BadRequest("del", user_id, schema.court_id, "no_court")
                      ELSE OkResp("del", user_id, schema.court_id, "del_ok", <<>>)
    /\ tasks' = [tasks EXCEPT ![t] = Idle]
    /\ UNCHANGED <<nextId, orders, now>>

\* update up to the answer of its pre-check query (lines 158-171).
update_check(t, user_id, schema) ==
    /\ tasks[t].pc = "idle"
    /\ IF UpdatePrecheck(courts, user_id, schema) = <<>>
       THEN /\ resp' = BadRequest("update", user_id, schema.court_id, "not_exist")
            /\ UNCHANGED tasks
       ELSE /\ tasks' = [tasks EXCEPT ![t] =
                           [pc |-> "update_save", user_id |-> user_id, schema |-> schema]]
            /\ UNCHANGED resp
    /\ UNCHANGED <<courts, nextId, orders, now>>

\* update from CourtOp::save to its response (lines 172-188).
update_save(t) ==
    /\ tasks[t].pc = "update_save"
    /\ LET user_id == tasks[t].user_id
           schema == tasks[t].schema
           r == CourtOpSave(courts, nextId, UpdateSaveCourt(user_id, schema))
       IN  /\ courts' = r.rows
           /\ nextId' = r.next
           /\ resp' = IF r.ok
                      THEN OkResp("update", user_id, schema.court_id, "update_ok", r.court)
                      ELSE SaveErr("update", user_id, schema.court_id)
    /\ tasks' = [tasks EXCEPT ![t] = Idle]
    /\ UNCHANGED <<orders, now>>

NextConc ==
    \/ \E t \in Tasks, a \in Admins, s \in AddCourt : add_check(t, a, s)
    \/ \E t \in Tasks : add_save(t)
    \/ \E t \in Tasks, a \in Admins, s \in DelCourt : del_check(t, a, s)
    \/ \E t \in Tasks : del_exec(t)
    \/ \E a \in Admins : all(a)
    \/ \E t \in Tasks, a \in Admins, s \in UpdateCourt : update_check(t, a, s)
    \/ \E t \in Tasks : update_save(t)
    \/ Env

SpecConc == Init /\ [][NextConc]_vars

\* ------------------------------------------------------------- claims

\* The stored rows, and what the claims say about them.
Rows == { courts[i] : i \in 1..Len(courts) }

Stored(court_id) == \E row \in Rows : row.court_id = court_id

Owns(user_id, court_id) ==
    \E row \in Rows : row.court_id = court_id /\ row.admin_id = user_id

HasName(user_id, court_name) ==
    \E row \in Rows : row.admin_id = user_id /\ row.court_name = court_name

ActiveOrder(court_id) ==
    \E o \in orders : o.court_id = court_id /\ o.apt_end >= now

\* The step answers a request `op` of admin `user_id`. Every step of that
\* handler does (its response names both), so as the first conjunct of a
\* step formula it only spares evaluating the handler on other steps.
Answers(op, user_id) == resp'.op = op /\ resp'.admin_id = user_id

\* C1: no two stored courts have the same (admin_id, court_name), in every
\* state reachable by add, update and del requests served one at a time.
C1_UniqueAdminCourtName ==
    \A i, j \in 1..Len(courts) :
        (courts[i].admin_id = courts[j].admin_id
            /\ courts[i].court_name = courts[j].court_name) => i = j

\* C2: a del request by an admin for a court that another admin owns leaves
\* the court stored and is answered with the not-found error.
C2_DelOwnershipScoped ==
    [][\A a \in Admins, s \in DelCourt :
          (del(a, s) /\ Stored(s.court_id) /\ ~Owns(a, s.court_id))
          => /\ courts' = courts
             /\ resp' = BadRequest("del", a, s.court_id, "no_court")]_vars

\* C3: add with a name the caller already uses is answered with the
\* duplicate-name BadRequest(-1) and stores nothing; add with a name used
\* only by another admin succeeds and appends one court of the caller.
C3_AddDuplicateName ==
    [][\A a \in Admins, s \in AddCourt :
          (Answers("add", a) /\ add(a, s)) =>
            /\ HasName(a, s.court_name)
               => /\ resp' = BadRequest("add", a, None, "duplicate_name")
                  /\ resp'.code = -1
                  /\ courts' = courts
            /\ (~HasName(a, s.court_name)
                   /\ \E b \in Admins \ {a} : HasName(b, s.court_name))
               => /\ resp'.op = "add" /\ resp'.code = 0
                  /\ Len(courts') = Len(courts) + 1
                  /\ SubSeq(courts', 1, Len(courts)) = courts
                  /\ courts'[Len(courts')].admin_id = a
                  /\ courts'[Len(courts')].court_name = s.court_name
                  /\ resp'.data = <<courts'[Len(courts')]>>]_vars

\* C3's case: a duplicate-name answer in a state where the same name is
\* stored under both admins (the cross-admin add went through).
C3_Witness ==
    /\ resp.op = "add" /\ resp.msg = "duplicate_name"
    /\ \E n \in {s.court_name : s \in AddCourt} :
          \A a \in Admins : HasName(a, n)

\* C4: del by the owner of a court with an order ending at or after the
\* current time is answered with the pending-orders BadRequest and the
\* court stays; when every order of the court ended before the current
\* time the same request succeeds and the court is gone.
C4_DelPendingOrders ==
    [][\A a \in Admins, s \in DelCourt :
          (Answers("del", a) /\ resp'.court_id = s.court_id
              /\ Owns(a, s.court_id) /\ del(a, s)) =>
            /\ ActiveOrder(s.court_id)
               => /\ resp' = BadRequest("del", a, s.court_id, "pending_orders")
                  /\ courts' = courts
            /\ ~ActiveOrder(s.court_id)
               => /\ resp' = OkResp("del", a, s.court_id, "del_ok", <<>>)
                  /\ \A i \in 1..Len(courts') : courts'[i].court_id # s.court_id]_vars

\* C4's case: a successful del of a court that has an order, all of whose
\* orders ended before the current time.
C4_Witness ==
    /\ resp.op = "del" /\ resp.msg = "del_ok"
    /\ \E o \in orders : o.court_id = resp.court_id /\ o.apt_end < now
    /\ ~Stored(resp.court_id)

\* C5: update of a court_id that is not stored, or is stored under another
\* admin, is answered with the not-exist BadRequest(-1) and changes no court.
C5_UpdateNotFound ==
    [][\A a \in Admins, s \in UpdateCourt :
          (Answers("update", a) /\ resp'.court_id = s.court_id
              /\ ~Owns(a, s.court_id) /\ update(a, s))
          => /\ resp' = BadRequest("update", a, s.court_id, "not_exist")
             /\ resp'.code = -1
             /\ courts' = courts]_vars

\* C5's case: the not-exist answer to an admin whose court_id is stored
\* under the other admin.
C5_Witness ==
    /\ resp.op = "update" /\ resp.msg = "not_exist"
    /\ \E row \in Rows : row.court_id = resp.court_id /\ row.admin_id # resp.admin_id

\* C6: a successful update of court c by its owner sets c's name, location,
\* label and price to the request's values, keeps c's court_id and admin_id,
\* keeps every other court, adds none, and the owner's list then shows c
\* with the new values.
C6_UpdateReplaces ==
    [][\A a \in Admins, s \in UpdateCourt :
          (Answers("update", a) /\ resp'.court_id = s.court_id
              /\ resp'.code = 0 /\ update(a, s)) =>
            /\ Len(courts') = Len(courts)
            /\ \A i \in 1..Len(courts) :
                  courts'[i] =
                     IF courts[i].court_id = s.court_id
                     THEN [court_id |-> courts[i].court_id,
                           admin_id |-> courts[i].admin_id,
                           court_name |-> s.court_name, location |-> s.location,
                           label |-> s.label, price_per_hour |-> s.price_per_hour]
                     ELSE courts[i]
            /\ LET l == AllCourts(courts', a)
                   at == { i \in 1..Len(l) : l[i].court_id = s.court_id }
               IN  /\ Cardinality(at) = 1
                   /\ \A i \in at :
                         /\ l[i].court_name = s.court_name
                         /\ l[i].location = s.location
                         /\ l[i].label = s.label
                         /\ l[i].price_per_hour = s.price_per_hour]_vars

\* C6's case: a successful update to the 150 price, with another court
\* stored beside the updated one.
C6_Witness ==
    /\ resp.op = "update" /\ resp.code = 0
    /\ resp.data[1].price_per_hour = 150
    /\ resp.data[1] \in Rows
    /\ Len(courts) > 1

\* C7: while a successful add is the last completed request, the caller's
\* list holds the added court exactly once, and no other stored court has
\* its court_id.
C7_AddThenList ==
    (resp.op = "add" /\ resp.code = 0) =>
        LET c == resp.data[1]
            l == AllCourts(courts, resp.admin_id)
        IN  /\ Cardinality({ i \in 1..Len(l) : l[i] = c }) = 1
            /\ Cardinality({ i \in 1..Len(l) : l[i].court_id = c.court_id }) = 1
            /\ Cardinality({ i \in 1..Len(courts) : courts[i].court_id = c.court_id }) = 1

\* C7's case: a successful add after which the caller's list has two
\* courts.
C7_Witness ==
    /\ resp.op = "add" /\ resp.code = 0
    /\ Len(AllCourts(courts, resp.admin_id)) = 2

\* C8: list(A) answers with exactly the stored courts whose admin_id is A,
\* each once, and changes nothing in the store.
C8_ListExactlyOwn ==
    [][\A a \in Admins :
          (Answers("all", a) /\ all(a)) =>
            /\ resp'.code = 0
            /\ { resp'.data[i] : i \in 1..Len(resp'.data) }
                  = { row \in Rows : row.admin_id = a }
            /\ Len(resp'.data) = Cardinality({ i \in 1..Len(courts) : courts[i].admin_id = a })
            /\ courts' = courts /\ nextId' = nextId /\ orders' = orders]_vars

\* C8's case: a list answer with a court in it while the other admin has a
\* court stored as well.
C8_Witness ==
    /\ resp.op = "all" /\ Len(resp.data) > 0
    /\ \E row \in Rows : row.admin_id # resp.admin_id
    /\ \E row \in Rows : row.admin_id = resp.admin_id

\* C9: an add that reaches its write never stores a second row for an
\* (admin_id, court_name) that is already stored, however the pre-checks
\* and writes of concurrent add requests interleave.
C9_ConcurrentAddNoDuplicate ==
    [][\A t \in Tasks :
          add_save(t) => ~HasName(tasks[t].user_id, tasks[t].schema.court_name)]_vars

\* C10: while a successful del is the last completed request, no order that
\* ends at or after the current time references the deleted court_id.
C10_DeletedWithoutActiveOrder ==
    (resp.op = "del" /\ resp.msg = "del_ok") => ~ActiveOrder(resp.court_id)

====
